---- MODULE Spec2Model ----
(***************************************************************************)
(* A model of the reaction-bot chain manager (src/main.py, BotManager).    *)
(*                                                                         *)
(* State: the three store collections (bots, emoji packs, custom posts),   *)
(* the process-wide running set and its lock, the manager's in-memory      *)
(* maps, the shared pseudo-random generator of the `random` module, one    *)
(* record per start_single_bot_sync thread, one record per command         *)
(* coroutine on the manager bot's event loop and one record per bot's      *)
(* message handler.                                                        *)
(*                                                                         *)
(* Granularity: code that runs between two awaits of one event loop, or    *)
(* inside one `with _instance_lock` block, is one action unless another    *)
(* thread can observe the middle; threads interleave at every action.      *)
(***************************************************************************)
EXTENDS Integers, Sequences, FiniteSets, TLC

VARIABLES
    bots_collection,      \* db['bots']: set of documents
    next_id,              \* the store's _id generator (ObjectId order)
    running_instances,    \* _running_instances: set of tokens
    instance_lock,        \* _instance_lock: 0 = free, else the holder
    running_bots,         \* self.running_bots: bot name -> info
    bot_emoji_assignment, \* self.bot_emoji_assignment: bot name -> emojis
    system_running,       \* _system_running
    threads,              \* start_single_bot_sync threads, by thread id
    commands,             \* command coroutines of the manager bot
    emoji_collection,     \* db['emojis']: pack_name -> emojis
    custom_posts_collection, \* db['custom_posts']: set of documents
    pending_custom_posts, \* self.pending_custom_posts: user -> post info
    rng,                  \* state of the shared generator of module random
    hash_key,             \* the process's string-hash randomisation key
    handlers,             \* message_handler invocation, by bot thread
    assigned,             \* "assigned emoji" log: (bot, message) -> last item
    reactions,            \* the last set_message_reaction call
    sweep,                \* the chain signal that is being forwarded
    delete_dialog         \* delete confirmations: keyboards shown, handler

lifecycle_vars == <<bots_collection, next_id, running_instances, instance_lock,
                    running_bots, bot_emoji_assignment, system_running,
                    threads, commands>>
assign_vars == <<emoji_collection, custom_posts_collection,
                 pending_custom_posts, rng, hash_key, handlers, assigned,
                 reactions>>
signal_vars == <<sweep>>
dialog_vars == <<delete_dialog>>
vars == <<bots_collection, next_id, running_instances, instance_lock,
          running_bots, bot_emoji_assignment, system_running, threads,
          commands, emoji_collection, custom_posts_collection,
          pending_custom_posts, rng, hash_key, handlers, assigned,
          reactions, sweep, delete_dialog>>

----------------------------------------------------------------------------
(* Bounds of the model. *)

\* documents ever inserted into db['bots'] (each insertion spawns one thread)
MaxJoins == 3
\* size of the model's seed space: stands for the 2**32 of hash(..) % (2**32)
SeedMod == 16
\* the string-hash randomisation key of the process ranges over 0..MaxHashKey
MaxHashKey == 1
\* size of the model's string-hash range, before the reduction to a seed
HashSpace == 251

\* message ids of the channel's posts range over 1..MaxMessageId
MaxMessageId == 1
\* documents ever inserted into db['bots'] in the chain specification
MaxRecords == 4
\* emoji packs f"emoji{n}" for n in 1..MaxPackNumber at the start of the
\* reaction specification
MaxPackNumber == 2
\* the pack commands are used with f"emoji{n}" for n in 1..MaxPackCommand
MaxPackCommand == 3
\* custom posts stored or pending at any one time
MaxCustomPosts == 1
\* delete confirmation messages on display at any one time
MaxKeyboards == 1

(* Program constants. *)

\* port = 5000 in get_next_available_port
PortFloor == 5000

\* os.getenv('TOKEN'): the primary credential
MainToken == "TOKEN"

\* credentials a /clone command may carry
CloneTokens == {"tokB", "tokC"}

\* DEFAULT_EMOJIS
DEFAULT_EMOJIS == <<"fire_heart", "smile", "zap">>

ThreadIds == 1..MaxJoins
\* command coroutines of the manager bot's event loop
CommandIds == {1, 2}

\* f"http://0.0.0.0:{port}/signal"; the empty next_url is ""
SignalUrl(port) == <<"http://0.0.0.0:", port, "/signal">>
NoUrl == <<>>

\* f"clone_bot_{bot_count}"
CloneName(bot_count) == "clone_bot_" \o ToString(bot_count)

NoBot == [id |-> 0, name |-> "", token |-> "", next_url |-> NoUrl, port |-> 0]
NoCommand == [pc |-> "idle", reply |-> "none", token |-> "", name |-> "",
              target |-> NoBot]
NoThread == [pc |-> "unborn", name |-> "", token |-> "", port |-> 0,
             seen |-> FALSE, is_main_bot |-> FALSE, all_packs |-> <<>>]
NoText == [brackets |-> FALSE, items |-> <<>>]
NoEvent == [chat_type |-> "", chat_id |-> 0, message_id |-> 0, user_id |-> 0,
            text |-> NoText]
NoPost == [chat_id |-> "", message_id |-> 0, custom_emojis |-> <<>>]
NoHandler == [pc |-> "idle", event |-> NoEvent, all_packs |-> <<>>,
              message_pack |-> <<>>, emoji |-> "", source |-> "",
              custom_post_doc |-> NoPost]
NoReaction == [bot_name |-> "", chat_id |-> "", message_id |-> 0, emoji |-> ""]
NoSweep == [pc |-> "idle", origin |-> 0, bot_name |-> "", received |-> {},
            posts |-> 0]
NoDialog == [keyboards |-> <<>>, pc |-> "idle", pack_name |-> 0,
             bot_names |-> {}, bot_name |-> "", all_packs |-> <<>>]

----------------------------------------------------------------------------
(* Store queries on db['bots']. *)

Ports(bots) == {b.port : b \in bots}

\* get_next_available_port: scan up from 5000 past every port in use
RECURSIVE ScanPort(_, _)
ScanPort(port, existing_ports) ==
    IF port \in existing_ports THEN ScanPort(port + 1, existing_ports)
    ELSE port

\* a defective allocator: one past the greatest port in use
port_after_greatest(bots) ==
    IF bots = {} THEN PortFloor
    ELSE 1 + (CHOOSE p \in Ports(bots) : \A q \in Ports(bots) : q <= p)

\* a defective allocation: the port is taken from the number of documents
PortByCount(bots) == PortFloor + Cardinality(bots)

get_next_available_port(bots) == ScanPort(PortFloor, Ports(bots))

\* find_one(sort=[("port", -1)]): the documents a descending sort can put first
LastBots(bots) == {b \in bots : \A o \in bots : o.port <= b.port}

\* find_one(filter): the first matching document in _id order
FindOne(matching) ==
    IF matching = {} THEN {}
    ELSE {CHOOSE b \in matching : \A o \in matching : b.id <= o.id}

\* update_one({"_id": id}, {"$set": {"next_url": url}})
SetNextUrl(bots, id, url) ==
    {IF b.id = id THEN [b EXCEPT !.next_url = url] ELSE b : b \in bots}

\* a defective join: the new document points back at the previous tail
AddBotLinkedBackwards(bots, id, name, token, last_bot) ==
    LET port == get_next_available_port(bots)
        last_url == IF last_bot = {} THEN NoUrl
                    ELSE SignalUrl((CHOOSE b \in last_bot : TRUE).port)
    IN  bots \cup {[id |-> id, name |-> name, token |-> token,
                    next_url |-> last_url, port |-> port]}

\* add_bot_to_database, given the document find_one(sort port desc) returned
\* (last_bot is a set: empty when the collection is empty)
AddBotWith(bots, id, name, token, last_bot) ==
    LET port == get_next_available_port(bots)
        new_bot == [id |-> id, name |-> name, token |-> token,
                    next_url |-> NoUrl, port |-> port]
        inserted == bots \cup {new_bot}
    IN  IF last_bot = {} THEN inserted
        ELSE LET last == CHOOSE b \in last_bot : TRUE
             IN  SetNextUrl(inserted, last.id, SignalUrl(port))

\* the outcomes of find_one(sort=[("port", -1)]): none on an empty collection
LastBotChoices(bots) ==
    IF bots = {} THEN {{}} ELSE {{b} : b \in LastBots(bots)}

\* threading.Thread(target=self.start_single_bot_sync, args=(bot_config,))
SpawnThread(bot_config) ==
    [NoThread EXCEPT !.pc = "start", !.name = bot_config.name,
                     !.token = bot_config.token, !.port = bot_config.port]

----------------------------------------------------------------------------
(* hash(str) and the generator of module random, shared by every thread.   *)
(* The generator is a stand-in for the Mersenne Twister: a state, a seed   *)
(* that resets the whole state, and draws that advance it.                 *)

\* the characters of a bot name, as one code
NameCode(name) ==
    IF name = "main_bot" THEN 1
    ELSE 1 + (CHOOSE n \in 0..(MaxJoins + 1) : name = CloneName(n))

\* hash(s) of a string given as its codes, keyed by the process's hash key
RECURSIVE HashFrom(_, _)
HashFrom(h, codes) ==
    IF codes = <<>> THEN h
    ELSE HashFrom((h * 31 + Head(codes)) % HashSpace, Tail(codes))

PyHash(codes, key) == HashFrom((key * 97 + 7) % HashSpace, codes)

\* the codes of bot_name, f"msg_{message_id}" and f"{bot_name}_{message_id}"
BotNameString(bot_name) == <<NameCode(bot_name)>>
MsgString(message_id) == <<109, 115, 103, 95, message_id>>
BotMsgString(bot_name, message_id) == <<NameCode(bot_name), 95, message_id>>

\* random.seed(hash(s) % (2**32)): the state the generator is reset to
SeedState(codes, key) == PyHash(codes, key) % SeedMod

\* n.bit_length()
RECURSIVE BitLength(_)
BitLength(n) == IF n = 0 THEN 0 ELSE 1 + BitLength(n \div 2)

\* one getrandbits(k): the generator advances, then yields k bits
Advance(state) == (state + 1) % SeedMod
Bits(state, k) == ((state * 11) % SeedMod) % (2 ^ k)

\* _randbelow(n): draw bit_length(n) bits until the draw is below n
RECURSIVE RandBelow(_, _)
RandBelow(state, n) ==
    LET next == Advance(state)
        r == Bits(next, BitLength(n))
    IN  IF r < n THEN [value |-> r, state |-> next]
        ELSE RandBelow(next, n)

\* random.choice(seq) from generator state `state`
Choice(state, seq) ==
    LET r == RandBelow(state, Len(seq))
    IN  [value |-> seq[r.value + 1], state |-> r.state]

----------------------------------------------------------------------------
(* Store queries on db['emojis'].  A pack f"emoji{n}" is keyed by n.       *)

\* the order of the strings "emoji1", "emoji10", "emoji2", ...
NameOrder(n) == IF n < 10 THEN n * 100 ELSE (n \div 10) * 100 + (n % 10) + 1

\* get_all_emoji_packs: find(...).sort("pack_name", 1)
get_all_emoji_packs(collection) ==
    LET names == DOMAIN collection
        order == CHOOSE s \in [1..Cardinality(names) -> names] :
                    \A i, j \in 1..Cardinality(names) :
                        i < j => NameOrder(s[i]) < NameOrder(s[j])
    IN  [i \in 1..Cardinality(names) |->
            [pack_name |-> order[i], emojis |-> collection[order[i]]]]

\* the empty collection, and save_emoji_pack's upsert
NoPacks == [n \in {} |-> <<>>]
save_emoji_pack(collection, pack_name, emojis) ==
    [n \in DOMAIN collection \cup {pack_name} |->
        IF n = pack_name THEN emojis ELSE collection[n]]

----------------------------------------------------------------------------
(* Dictionaries of the manager object. *)

EmptyMap == [k \in {} |-> 0]
MapPut(map, key, value) ==
    [k \in DOMAIN map \cup {key} |-> IF k = key THEN value ELSE map[k]]
MapDel(map, key) == [k \in DOMAIN map \ {key} |-> map[k]]

----------------------------------------------------------------------------
(* start_all_bots: the system start. *)

\* load_emojis_from_database: an empty collection gets the default pack
load_emojis_from_database(collection) ==
    IF DOMAIN collection = {} THEN save_emoji_pack(collection, 1, DEFAULT_EMOJIS)
    ELSE collection

StartAllBots ==
    /\ ~system_running
    /\ system_running' = TRUE
    /\ emoji_collection' = load_emojis_from_database(emoji_collection)
    /\ LET main_bot == {b \in bots_collection : b.token = MainToken}
       IN  \E last_bot \in LastBotChoices(bots_collection) :
             LET all_bots ==
                    IF main_bot = {}
                    THEN AddBotWith(bots_collection, next_id, "main_bot",
                                    MainToken, last_bot)
                    ELSE bots_collection
             IN  /\ bots_collection' = all_bots
                 /\ next_id' = IF main_bot = {} THEN next_id + 1 ELSE next_id
                 /\ threads' = [t \in ThreadIds |->
                        IF \E b \in all_bots : b.id = t
                        THEN SpawnThread(CHOOSE b \in all_bots : b.id = t)
                        ELSE threads[t]]
    /\ UNCHANGED <<running_instances, instance_lock, running_bots,
                   bot_emoji_assignment, commands, custom_posts_collection,
                   pending_custom_posts, rng, hash_key, handlers, assigned,
                   reactions, sweep, delete_dialog>>

----------------------------------------------------------------------------
(* start_single_bot_sync: one thread per started bot. *)

\* a defective lock: it excludes nobody
LockNeverHeld == TRUE

\* `with _instance_lock:` can be entered
LockFree == instance_lock = 0

\* with _instance_lock: if token in _running_instances (the membership test)
StartCheck(t) ==
    /\ threads[t].pc = "start"
    /\ LockFree
    /\ instance_lock' = t
    /\ threads' = [threads EXCEPT ![t].pc = "add",
                      ![t].seen = (threads[t].token \in running_instances)]
    /\ UNCHANGED <<bots_collection, next_id, running_instances, running_bots,
                   bot_emoji_assignment, system_running, commands>>
    /\ UNCHANGED <<assign_vars, signal_vars, dialog_vars>>

\* ... return (already running), or _running_instances.add(token); lock released
StartAdd(t) ==
    /\ threads[t].pc = "add"
    /\ instance_lock' = 0
    /\ IF threads[t].seen
       THEN /\ threads' = [threads EXCEPT ![t].pc = "skipped"]
            /\ UNCHANGED running_instances
       ELSE /\ threads' = [threads EXCEPT ![t].pc = "setup"]
            /\ running_instances' = running_instances \cup {threads[t].token}
    /\ UNCHANGED <<bots_collection, next_id, running_bots,
                   bot_emoji_assignment, system_running, commands>>
    /\ UNCHANGED <<assign_vars, signal_vars, dialog_vars>>

\* a defective test: every bot gets the management commands
EveryBotIsMain(bot_config, bots) == TRUE

\* is_main_bot: named main_bot, or on port 5000, or no document has a lower port
IsMainBot(bot_config, bots) ==
    \/ bot_config.name = "main_bot"
    \/ bot_config.port = PortFloor
    \/ {b \in bots : b.port < bot_config.port} = {}

\* storing the assignment and the bot info (lines 1443-1452)
StoreBotInfo(t, bot_emoji_pack) ==
    /\ bot_emoji_assignment' =
          MapPut(bot_emoji_assignment, threads[t].name, bot_emoji_pack)
    /\ running_bots' =
          MapPut(running_bots, threads[t].name,
                 [port |-> threads[t].port, token |-> threads[t].token,
                  emoji_pack |-> bot_emoji_pack])

\* from the try down to random.seed in assign_emoji_pack_to_bot; with no
\* packs the default list is assigned without touching the generator
SetupSeed(t) ==
    /\ threads[t].pc = "setup"
    /\ LET all_packs == get_all_emoji_packs(emoji_collection)
           is_main == IsMainBot(threads[t], bots_collection)
       IN  IF all_packs = <<>>
           THEN /\ threads' = [threads EXCEPT ![t].pc = "initialize",
                                              ![t].is_main_bot = is_main]
                /\ StoreBotInfo(t, DEFAULT_EMOJIS)
                /\ UNCHANGED rng
           ELSE /\ threads' = [threads EXCEPT ![t].pc = "assign_choice",
                                              ![t].is_main_bot = is_main,
                                              ![t].all_packs = all_packs]
                /\ rng' = SeedState(BotNameString(threads[t].name), hash_key)
                /\ UNCHANGED <<running_bots, bot_emoji_assignment>>
    /\ UNCHANGED <<bots_collection, next_id, running_instances, instance_lock,
                   system_running, commands, emoji_collection,
                   custom_posts_collection, pending_custom_posts, hash_key,
                   handlers, assigned, reactions, sweep,
                   delete_dialog>>

\* random.choice(all_packs), then the assignment and the bot info are stored
SetupChoice(t) ==
    /\ threads[t].pc = "assign_choice"
    /\ LET c == Choice(rng, threads[t].all_packs)
       IN  /\ rng' = c.state
           /\ StoreBotInfo(t, c.value.emojis)
    /\ threads' = [threads EXCEPT ![t].pc = "initialize", ![t].all_packs = <<>>]
    /\ UNCHANGED <<bots_collection, next_id, running_instances, instance_lock,
                   system_running, commands, emoji_collection,
                   custom_posts_collection, pending_custom_posts, hash_key,
                   handlers, assigned, reactions, sweep,
                   delete_dialog>>

\* run_bot: initialize, start, start_polling succeed; the loop is entered
RunBotPolling(t) ==
    /\ threads[t].pc = "initialize"
    /\ threads' = [threads EXCEPT ![t].pc = "polling"]
    /\ UNCHANGED <<bots_collection, next_id, running_instances, instance_lock,
                   running_bots, bot_emoji_assignment, system_running, commands>>
    /\ UNCHANGED <<assign_vars, signal_vars, dialog_vars>>

\* run_bot: initialize, start or start_polling raises; run_bot returns
RunBotError(t) ==
    /\ threads[t].pc = "initialize"
    /\ threads' = [threads EXCEPT ![t].pc = "cleanup"]
    /\ UNCHANGED <<bots_collection, next_id, running_instances, instance_lock,
                   running_bots, bot_emoji_assignment, system_running, commands>>
    /\ UNCHANGED <<assign_vars, signal_vars, dialog_vars>>

\* a defective loop test: the worker stops whatever the running set holds
LoopTestAlwaysFails(t) == FALSE

\* run_bot: the test of `while token in _running_instances`
LoopTest(t) == threads[t].token \in running_instances

\* while token in _running_instances: the test fails and the loop ends
PollExit(t) ==
    /\ threads[t].pc = "polling"
    /\ ~LoopTest(t)
    /\ threads' = [threads EXCEPT ![t].pc = "cleanup"]
    /\ UNCHANGED <<bots_collection, next_id, running_instances, instance_lock,
                   running_bots, bot_emoji_assignment, system_running, commands>>
    /\ UNCHANGED <<assign_vars, signal_vars, dialog_vars>>

\* finally: with _instance_lock: _running_instances.discard(token)
Cleanup(t) ==
    /\ threads[t].pc = "cleanup"
    /\ LockFree
    /\ running_instances' = running_instances \ {threads[t].token}
    /\ threads' = [threads EXCEPT ![t].pc = "done"]
    /\ UNCHANGED <<bots_collection, next_id, instance_lock, running_bots,
                   bot_emoji_assignment, system_running, commands>>
    /\ UNCHANGED <<assign_vars, signal_vars, dialog_vars>>

----------------------------------------------------------------------------
(* The management commands, handled on the event loop of a bot that has    *)
(* registered them (is_main_bot) and is polling.                           *)

ManagerPolling ==
    \E t \in ThreadIds : threads[t].pc = "polling" /\ threads[t].is_main_bot

Reply(c, text) == [commands EXCEPT ![c] = [NoCommand EXCEPT !.reply = text]]

\* a defective check: only the running set is consulted, not the store
CloneConflictRunningOnly(new_token) ==
    IF new_token \in running_instances THEN "already_running" ELSE "none"

\* clone_command: the two conflict checks (running set, then the store)
CloneConflict(new_token) ==
    IF new_token \in running_instances THEN "already_running"
    ELSE IF \E b \in bots_collection : b.token = new_token
         THEN "already_in_database"
         ELSE "none"

\* clone_command up to the await before the token is validated
CloneCheck(c, new_token) ==
    /\ commands[c].pc = "idle"
    /\ ManagerPolling
    /\ LockFree
    /\ next_id <= MaxJoins
    /\ LET conflict == CloneConflict(new_token)
       IN  IF conflict # "none"
           THEN commands' = Reply(c, conflict)
           ELSE commands' = [commands EXCEPT ![c].pc = "validate",
                                             ![c].reply = "none",
                                             ![c].token = new_token]
    /\ UNCHANGED <<bots_collection, next_id, running_instances, instance_lock,
                   running_bots, bot_emoji_assignment, system_running, threads>>
    /\ UNCHANGED <<assign_vars, signal_vars, dialog_vars>>

\* getMe answers: the token is refused, or bot_count and bot_name are taken
CloneValidate(c, token_ok) ==
    /\ commands[c].pc = "validate"
    /\ ManagerPolling
    /\ IF token_ok
       THEN commands' = [commands EXCEPT ![c].pc = "add",
                 ![c].name = CloneName(Cardinality(bots_collection))]
       ELSE commands' = Reply(c, "invalid_token")
    /\ UNCHANGED <<bots_collection, next_id, running_instances, instance_lock,
                   running_bots, bot_emoji_assignment, system_running, threads>>
    /\ UNCHANGED <<assign_vars, signal_vars, dialog_vars>>

\* add_bot_to_database(bot_name, new_token), then the bot's thread is started
CloneAdd(c) ==
    /\ commands[c].pc = "add"
    /\ ManagerPolling
    /\ next_id <= MaxJoins
    /\ \E last_bot \in LastBotChoices(bots_collection) :
          LET all_bots == AddBotWith(bots_collection, next_id,
                                     commands[c].name, commands[c].token,
                                     last_bot)
              new_bot == CHOOSE b \in all_bots : b.id = next_id
          IN  /\ bots_collection' = all_bots
              /\ threads' = [threads EXCEPT ![next_id] = SpawnThread(new_bot)]
    /\ next_id' = next_id + 1
    /\ commands' = Reply(c, "cloned")
    /\ UNCHANGED <<running_instances, instance_lock, running_bots,
                   bot_emoji_assignment, system_running>>
    /\ UNCHANGED <<assign_vars, signal_vars, dialog_vars>>

\* a defective test: no instance is protected
NeverMainToken(bot_token) == FALSE

\* unclone_command: the protected-instance test
IsMainToken(bot_token) == bot_token = MainToken

\* unclone_command up to the await before the removal; `found` is what the
\* username search over get_all_bots() returned (no document, or one)
UncloneSearch(c, found) ==
    /\ commands[c].pc = "idle"
    /\ ManagerPolling
    /\ IF found = {} THEN commands' = Reply(c, "not_found")
       ELSE LET target_bot == CHOOSE b \in found : TRUE
            IN  IF IsMainToken(target_bot.token)
                THEN commands' = Reply(c, "cannot_unclone_main")
                ELSE commands' = [commands EXCEPT ![c].pc = "remove",
                                                  ![c].reply = "none",
                                                  ![c].target = target_bot]
    /\ UNCHANGED <<bots_collection, next_id, running_instances, instance_lock,
                   running_bots, bot_emoji_assignment, system_running, threads>>
    /\ UNCHANGED <<assign_vars, signal_vars, dialog_vars>>

\* a defective leave: the document is deleted and the chain is not repaired
DeleteWithoutRelink(bots, target_bot) == {b \in bots : b.id # target_bot.id}

\* the chain repair of unclone_command: the predecessor found by next_url
\* takes the target's next_url, then the target's document is deleted
Relink(bots, target_bot) ==
    LET previous_bot ==
            FindOne({b \in bots : b.next_url = SignalUrl(target_bot.port)})
        relinked ==
            IF previous_bot = {} THEN bots
            ELSE SetNextUrl(bots, (CHOOSE b \in previous_bot : TRUE).id,
                            target_bot.next_url)
    IN  {b \in relinked : b.id # target_bot.id}

\* unclone_command from the running-set discard to the delete_one
UncloneRemove(c) ==
    /\ commands[c].pc = "remove"
    /\ ManagerPolling
    /\ LockFree
    /\ LET target_bot == commands[c].target
       IN  /\ running_instances' = running_instances \ {target_bot.token}
           /\ running_bots' = MapDel(running_bots, target_bot.name)
           /\ bots_collection' = Relink(bots_collection, target_bot)
    /\ commands' = Reply(c, "uncloned")
    /\ UNCHANGED <<next_id, instance_lock, bot_emoji_assignment,
                   system_running, threads>>
    /\ UNCHANGED <<assign_vars, signal_vars, dialog_vars>>

----------------------------------------------------------------------------
(* The lifecycle specification: commands are handled one at a time, the    *)
(* bots' threads run concurrently with them and with each other.           *)

EmptyStoreInit ==
    /\ bots_collection = {}
    /\ next_id = 1
    /\ running_instances = {}
    /\ instance_lock = 0
    /\ running_bots = EmptyMap
    /\ bot_emoji_assignment = EmptyMap
    /\ system_running = FALSE
    /\ threads = [t \in ThreadIds |-> NoThread]
    /\ commands = [c \in CommandIds |-> NoCommand]
    /\ emoji_collection = NoPacks
    /\ custom_posts_collection = {}
    /\ pending_custom_posts = EmptyMap
    /\ handlers = [t \in ThreadIds |-> NoHandler]
    /\ assigned = EmptyMap
    /\ reactions = NoReaction
    /\ sweep = NoSweep
    /\ delete_dialog = NoDialog

\* the store a previous run left behind after /clone tokB, /clone tokC and
\* /unclone of the first clone: main_bot -> clone_bot_2, port 5001 free again
PersistedBots ==
    {[id |-> 1, name |-> "main_bot", token |-> MainToken,
      next_url |-> SignalUrl(PortFloor + 2), port |-> PortFloor],
     [id |-> 2, name |-> CloneName(2), token |-> "tokC",
      next_url |-> NoUrl, port |-> PortFloor + 2]}

PersistedStoreInit ==
    /\ bots_collection = PersistedBots
    /\ next_id = 3
    /\ running_instances = {}
    /\ instance_lock = 0
    /\ running_bots = EmptyMap
    /\ bot_emoji_assignment = EmptyMap
    /\ system_running = FALSE
    /\ threads = [t \in ThreadIds |-> NoThread]
    /\ commands = [c \in CommandIds |-> NoCommand]
    /\ emoji_collection = save_emoji_pack(NoPacks, 1, DEFAULT_EMOJIS)
    /\ custom_posts_collection = {}
    /\ pending_custom_posts = EmptyMap
    /\ handlers = [t \in ThreadIds |-> NoHandler]
    /\ assigned = EmptyMap
    /\ reactions = NoReaction
    /\ sweep = NoSweep
    /\ delete_dialog = NoDialog

\* a process start: on a fresh store or on the persisted one; the generator
\* is in the state the interpreter seeded it to
Init ==
    /\ EmptyStoreInit \/ PersistedStoreInit
    /\ rng = 0
    /\ hash_key = 0

ThreadStep(t) ==
    \/ StartCheck(t)
    \/ StartAdd(t)
    \/ SetupSeed(t)
    \/ SetupChoice(t)
    \/ RunBotPolling(t)
    \/ RunBotError(t)
    \/ PollExit(t)
    \/ Cleanup(t)

\* the usernames an /unclone can name: none in the store, or one document's
Found == {{}} \cup {{b} : b \in bots_collection}

Next ==
    \/ StartAllBots
    \/ \E t \in ThreadIds : ThreadStep(t)
    \/ \E new_token \in CloneTokens \cup {MainToken} : CloneCheck(1, new_token)
    \/ \E token_ok \in BOOLEAN : CloneValidate(1, token_ok)
    \/ CloneAdd(1)
    \/ \E found \in Found : UncloneSearch(1, found)
    \/ UncloneRemove(1)

Spec == Init /\ [][Next]_vars

\* every bot thread is scheduled
FairSpec == Spec /\ \A t \in ThreadIds : WF_vars(ThreadStep(t))

----------------------------------------------------------------------------
(* Claims about the instance registry and the chain (checked under Spec).  *)

HasId(bots, id) == \E b \in bots : b.id = id
BotById(bots, id) == CHOOSE b \in bots : b.id = id
Ids(bots) == {b.id : b \in bots}
Inserted == {b \in bots_collection' : ~HasId(bots_collection, b.id)}
UniquePorts(bots) == \A a, b \in bots : a.port = b.port => a = b

\* C1: with joins and leaves handled one at a time, every newly inserted
\* record gets the smallest port >= 5000 that no record held at that moment,
\* and no two records of the store ever share a port.
C1_SmallestFreePort ==
    /\ UniquePorts(bots_collection)
    /\ [][/\ UniquePorts(bots_collection')
          /\ \A b \in Inserted :
                /\ b.port >= PortFloor
                /\ b.port \notin Ports(bots_collection)
                /\ \A q \in PortFloor..(b.port - 1) :
                      q \in Ports(bots_collection)]_vars

\* a record was inserted on a port below one still in use (a freed port)
C1_Witness ==
    \E a, b \in bots_collection : a.id < b.id /\ b.port < a.port

\* C2: a join onto the empty store yields a record with an empty next_url;
\* a join onto the store holding only that record A leaves A.next_url =
\* B's signal address and B.next_url empty.
C2_JoinLinksTail ==
    [][\A b \in Inserted :
          /\ bots_collection = {} =>
                bots_collection' = {b} /\ b.next_url = NoUrl
          /\ \A a \in bots_collection :
                (bots_collection = {a} /\ a.next_url = NoUrl) =>
                    /\ bots_collection' =
                          {[a EXCEPT !.next_url = SignalUrl(b.port)], b}
                    /\ b.next_url = NoUrl]_vars

\* join(A) then join(B) from the empty store have both happened
C2_Witness ==
    /\ next_id = 3
    /\ \E a, b \in bots_collection :
          /\ bots_collection = {a, b}
          /\ a.port = PortFloor /\ b.port = PortFloor + 1
          /\ a.name = "main_bot" /\ b.name = CloneName(1)

\* the store holds exactly the chain a -> b -> c
IsChain3(bots, a, b, c) ==
    /\ bots = {a, b, c}
    /\ Cardinality(bots) = 3
    /\ a.next_url = SignalUrl(b.port)
    /\ b.next_url = SignalUrl(c.port)
    /\ c.next_url = NoUrl

\* C3: when the store holds the chain A -> B -> C and leave(B) removes B's
\* record, the store holds A with next_url = C's signal address and C
\* unchanged, and nothing else.
C3_LeaveMiddleRelinks ==
    [][\A a, b, c \in bots_collection :
          (IsChain3(bots_collection, a, b, c)
             /\ ~HasId(bots_collection', b.id)) =>
          bots_collection' = {[a EXCEPT !.next_url = SignalUrl(c.port)], c}]_vars

\* three joins from the empty store, then leave of the middle record
C3_Witness ==
    /\ next_id = 4
    /\ commands[1].reply = "uncloned"
    /\ \E a, c \in bots_collection :
          /\ bots_collection = {a, c}
          /\ a.id = 1 /\ c.id = 3
          /\ a.port = PortFloor /\ c.port = PortFloor + 2
          /\ a.next_url = SignalUrl(c.port)

----------------------------------------------------------------------------
(* Claims about the instance lifecycle (checked under Spec). *)

\* a worker that has passed the running-set check and not left its loop
Active(t) ==
    threads[t].pc \in {"setup", "assign_choice", "initialize", "polling"}

\* C4: in every reachable state at most one worker is active for any
\* given secret.
C4_OneWorkerPerSecret ==
    \A t1, t2 \in ThreadIds :
        (Active(t1) /\ Active(t2) /\ threads[t1].token = threads[t2].token)
            => t1 = t2

\* C5: a start call leaves the locked check with the decision the running
\* set calls for at that moment: rejected and the set untouched when the
\* secret is in it, admitted with the secret added otherwise; a rejected
\* call launches nothing afterwards and never touches the set.
C5_StartCheckThenAddAtomic ==
    [][\A t \in ThreadIds :
          /\ (threads[t].pc = "add" /\ threads'[t].pc # "add") =>
                IF threads[t].token \in running_instances
                THEN /\ threads'[t].pc = "skipped"
                     /\ running_instances' = running_instances
                ELSE /\ threads'[t].pc = "setup"
                     /\ running_instances' =
                           running_instances \cup {threads[t].token}
          /\ threads[t].pc = "skipped" => threads'[t] = threads[t]]_vars

\* two start calls for one secret were pending at once: one was admitted
\* and still runs, the other was rejected
C5_Witness ==
    \E t1, t2 \in ThreadIds :
        /\ t1 # t2
        /\ threads[t1].token = threads[t2].token
        /\ Active(t1)
        /\ threads[t2].pc = "skipped"
        /\ threads[t1].token \in running_instances

\* C6: a leave command that resolves to the record holding the primary
\* credential is rejected in the step that resolves it: the reply is the
\* refusal, the command is over, and the store's records, every next_url
\* and the running set are as before.
C6_PrimaryIsProtected ==
    [][\A c \in CommandIds : \A b \in bots_collection :
          (b.token = MainToken /\ UncloneSearch(c, {b})) =>
              /\ commands'[c].pc = "idle"
              /\ commands'[c].reply = "cannot_unclone_main"
              /\ bots_collection' = bots_collection
              /\ running_instances' = running_instances
              /\ running_bots' = running_bots]_vars

\* a leave of the primary was refused while cloned bots exist
C6_Witness ==
    /\ commands[1].reply = "cannot_unclone_main"
    /\ Cardinality(bots_collection) >= 2
    /\ MainToken \in running_instances

\* C7: a join command whose secret is in the running set or in a record of
\* the store is rejected in the step that checks it: the command is over
\* with a conflict reply, and no record, next_url, port, running-set entry
\* or thread has changed.
C7_ConflictingJoinRejected ==
    [][\A c \in CommandIds : \A tok \in CloneTokens \cup {MainToken} :
          ((tok \in running_instances
              \/ \E b \in bots_collection : b.token = tok)
           /\ CloneCheck(c, tok)) =>
              /\ commands'[c].pc = "idle"
              /\ commands'[c].reply \in
                    {"already_running", "already_in_database"}
              /\ bots_collection' = bots_collection
              /\ next_id' = next_id
              /\ running_instances' = running_instances
              /\ threads' = threads
              /\ running_bots' = running_bots]_vars

\* a join was refused because the secret's record exists although its
\* worker is not running
C7_Witness ==
    /\ commands[1].reply = "already_in_database"
    /\ \E b \in bots_collection :
          b.token \in CloneTokens /\ b.token \notin running_instances

----------------------------------------------------------------------------
(* Events, custom posts and the emoji resolution of message_handler. *)

\* the channel the bots react in: its chat id, its t.me/c/ number, its name
ChannelChatId == -1001
ChannelNumber == "1"
ChannelName == "chan"
\* the user who talks to the bots in a private chat (chat id = user id)
UserId == 7

MessageIds == 1..MaxMessageId

\* the item list a user sends: "[z]"; the text "hello" is no list
ListTexts == {[brackets |-> TRUE, items |-> <<"z">>]}
Texts == ListTexts \cup {NoText}

\* inbound updates: posts (or edits of posts) of the channel, and private
\* messages of the user
ChannelEvents ==
    {[chat_type |-> "channel", chat_id |-> ChannelChatId, message_id |-> m,
      user_id |-> 0, text |-> NoText] : m \in MessageIds}
PrivateEvents ==
    {[chat_type |-> "private", chat_id |-> UserId, message_id |-> 1,
      user_id |-> UserId, text |-> txt] : txt \in Texts}
Events == ChannelEvents \cup PrivateEvents

\* post links, as the parts of the path after "t.me/":
\* https://t.me/chan/<m>, https://t.me/c/1/<m>, and https://t.me/chan
PostLinks ==
    {<<ChannelName, m>> : m \in MessageIds}
        \cup {<<"c", ChannelNumber, m>> : m \in MessageIds}
        \cup {<<ChannelName>>}

\* parse_post_link: {} for None, else one record
parse_post_link(parts) ==
    IF Len(parts) >= 2
    THEN LET channel_part == parts[1]
         IN  IF channel_part = "c" /\ Len(parts) >= 3
             THEN {[chat_id |-> "-100" \o parts[2], message_id |-> parts[3]]}
             ELSE {[chat_id |-> "@" \o channel_part, message_id |-> parts[2]]}
    ELSE {}

\* get_custom_post_emojis(str(chat_id), message_id): {} for None, else the
\* custom_emojis of the document that find_one returns
get_custom_post_emojis(chat_id, message_id) ==
    LET matching == {d \in custom_posts_collection :
                        /\ d.chat_id = ToString(chat_id)
                        /\ d.message_id = message_id}
    IN  {d.custom_emojis : d \in FindOne(matching)}

\* get_all_bots() in store order, and the position of bot_name in it (0 when
\* no document has that name)
BotIndex(bots, bot_name) ==
    LET named == {b \in bots : b.name = bot_name}
    IN  IF named = {} THEN 0
        ELSE LET first == CHOOSE b \in named : \A o \in named : b.id <= o.id
             IN  Cardinality({b \in bots : b.id < first.id})

\* the bot whose loop runs the handler is polling
Polling(t) == threads[t].pc = "polling"

\* message_handler from the custom-post lookup to the first random.seed:
\* a custom post decides the emoji by the bot's index; otherwise
\* assign_emoji_to_bot starts with get_random_pack_for_message, which reads
\* the packs and seeds the generator with hash(f"msg_{message_id}") % 2**32
HandleMessage(t, event) ==
    /\ Polling(t)
    /\ handlers[t].pc = "idle"
    /\ threads[t].is_main_bot => delete_dialog.pc = "idle"
    /\ LET custom == get_custom_post_emojis(event.chat_id, event.message_id)
           custom_emojis == IF custom = {} THEN <<>>
                            ELSE CHOOSE e \in custom : TRUE
           all_packs == get_all_emoji_packs(emoji_collection)
       IN  IF custom_emojis # <<>>
           THEN LET bot_index == BotIndex(bots_collection, threads[t].name)
                    emoji_index == bot_index % Len(custom_emojis)
                IN  /\ handlers' = [handlers EXCEPT ![t] =
                          [NoHandler EXCEPT !.pc = "react", !.event = event,
                              !.emoji = custom_emojis[emoji_index + 1],
                              !.source = "custom"]]
                    /\ UNCHANGED rng
           ELSE IF all_packs = <<>>
           THEN /\ handlers' = [handlers EXCEPT ![t] =
                      [NoHandler EXCEPT !.pc = "item_seed", !.event = event,
                          !.message_pack = DEFAULT_EMOJIS, !.source = "pack"]]
                /\ UNCHANGED rng
           ELSE /\ handlers' = [handlers EXCEPT ![t] =
                      [NoHandler EXCEPT !.pc = "pack_choice", !.event = event,
                          !.all_packs = all_packs, !.source = "pack"]]
                /\ rng' = SeedState(MsgString(event.message_id), hash_key)
    /\ UNCHANGED <<lifecycle_vars, signal_vars, dialog_vars>>
    /\ UNCHANGED <<emoji_collection, custom_posts_collection,
                   pending_custom_posts, hash_key, assigned, reactions>>

\* a defective fallback: the last default emoji
LastDefault == DEFAULT_EMOJIS[Len(DEFAULT_EMOJIS)]

\* DEFAULT_EMOJIS[0] if DEFAULT_EMOJIS else the heart
FirstDefault == DEFAULT_EMOJIS[1]

\* get_random_pack_for_message: random.choice(all_packs); an empty pack
\* makes assign_emoji_to_bot return the first default emoji
PackChoice(t) ==
    /\ handlers[t].pc = "pack_choice"
    /\ LET c == Choice(rng, handlers[t].all_packs)
           pack_emojis == c.value.emojis
       IN  /\ rng' = c.state
           /\ IF pack_emojis = <<>>
              THEN handlers' = [handlers EXCEPT ![t].pc = "react",
                                   ![t].all_packs = <<>>,
                                   ![t].emoji = FirstDefault]
              ELSE handlers' = [handlers EXCEPT ![t].pc = "item_seed",
                                   ![t].all_packs = <<>>,
                                   ![t].message_pack = pack_emojis]
    /\ UNCHANGED <<lifecycle_vars, signal_vars, dialog_vars>>
    /\ UNCHANGED <<emoji_collection, custom_posts_collection,
                   pending_custom_posts, hash_key, assigned, reactions>>

\* assign_emoji_to_bot: random.seed(hash(f"{bot_name}_{message_id}") % 2**32)
ItemSeed(t) ==
    /\ handlers[t].pc = "item_seed"
    /\ rng' = SeedState(BotMsgString(threads[t].name,
                                     handlers[t].event.message_id), hash_key)
    /\ handlers' = [handlers EXCEPT ![t].pc = "item_choice"]
    /\ UNCHANGED <<lifecycle_vars, signal_vars, dialog_vars>>
    /\ UNCHANGED <<emoji_collection, custom_posts_collection,
                   pending_custom_posts, hash_key, assigned, reactions>>

\* assign_emoji_to_bot: random.choice(message_pack), and the log line
\* "Bot {bot_name} assigned emoji: {selected_emoji} from message pack"
ItemChoice(t) ==
    /\ handlers[t].pc = "item_choice"
    /\ LET c == Choice(rng, handlers[t].message_pack)
       IN  /\ rng' = c.state
           /\ handlers' = [handlers EXCEPT ![t].pc = "react",
                                           ![t].message_pack = <<>>,
                                           ![t].emoji = c.value]
           /\ assigned' = MapPut(assigned,
                                 <<threads[t].name,
                                   handlers[t].event.message_id>>, c.value)
    /\ UNCHANGED <<lifecycle_vars, signal_vars, dialog_vars>>
    /\ UNCHANGED <<emoji_collection, custom_posts_collection,
                   pending_custom_posts, hash_key, reactions>>

\* a call of set_message_reaction
SetReaction(bot_name, chat_id, message_id, emoji) ==
    [bot_name |-> bot_name, chat_id |-> chat_id, message_id |-> message_id,
     emoji |-> emoji]

\* remove_bot_reactions and apply_custom_reactions loop over running_bots in
\* the order the bot threads filled it: the last call of the loop is by
\* last_bot, at index len(running_bots) - 1
LastRunningBots == DOMAIN running_bots
LastIndex == Cardinality(DOMAIN running_bots) - 1

\* message_handler after the emoji is assigned: in a channel or group the
\* reaction is set; in a private chat handle_custom_emoji_input goes first:
\* it takes a bracketed list from a user with a pending custom post, builds
\* the custom post document and removes the documents stored for that post
\* (delete_many); the insert is a later call on the store
React(t) ==
    /\ handlers[t].pc = "react"
    /\ LET event == handlers[t].event
           is_channel_or_group ==
               event.chat_type \in {"channel", "group", "supergroup"}
           handled_custom ==
               /\ ~is_channel_or_group
               /\ event.user_id \in DOMAIN pending_custom_posts
               /\ event.text.brackets
           emoji_list == event.text.items
       IN  IF ~handled_custom
           THEN /\ reactions' = SetReaction(threads[t].name,
                                            ToString(event.chat_id),
                                            event.message_id,
                                            handlers[t].emoji)
                /\ handlers' = [handlers EXCEPT ![t] = NoHandler]
                /\ UNCHANGED custom_posts_collection
           ELSE IF emoji_list = <<>> \/ Len(emoji_list) > 20
           THEN /\ handlers' = [handlers EXCEPT ![t] = NoHandler]
                /\ UNCHANGED <<custom_posts_collection, reactions>>
           ELSE LET post_info == pending_custom_posts[event.user_id]
                    kept == {d \in custom_posts_collection :
                                ~(/\ d.chat_id = post_info.chat_id
                                  /\ d.message_id = post_info.message_id)}
                IN  /\ custom_posts_collection' = kept
                    /\ handlers' = [handlers EXCEPT
                          ![t].pc = "custom_insert",
                          ![t].custom_post_doc =
                              [chat_id |-> post_info.chat_id,
                               message_id |-> post_info.message_id,
                               custom_emojis |-> emoji_list]]
                    /\ UNCHANGED reactions
    /\ UNCHANGED <<lifecycle_vars, signal_vars, dialog_vars>>
    /\ UNCHANGED <<emoji_collection, pending_custom_posts, rng, hash_key,
                   assigned>>

\* the _id that insert_one gives a new custom post: later than every stored
NextPostId(posts) ==
    IF posts = {} THEN 1
    ELSE 1 + (CHOOSE i \in {d.id : d \in posts} :
                 \A d \in posts : d.id <= i)

\* handle_custom_emoji_input: insert_one(custom_post_doc), then
\* apply_custom_reactions sets the list on the post with every running bot
CustomInsert(t) ==
    /\ handlers[t].pc = "custom_insert"
    /\ LET doc == handlers[t].custom_post_doc
           emoji_list == doc.custom_emojis
       IN  /\ custom_posts_collection' = custom_posts_collection \cup
                 {[id |-> NextPostId(custom_posts_collection),
                   chat_id |-> doc.chat_id, message_id |-> doc.message_id,
                   custom_emojis |-> emoji_list]}
           /\ IF LastRunningBots = {} THEN UNCHANGED reactions
              ELSE \E last_bot \in LastRunningBots :
                     reactions' =
                       SetReaction(last_bot, doc.chat_id, doc.message_id,
                           emoji_list[(LastIndex % Len(emoji_list)) + 1])
    /\ handlers' = [handlers EXCEPT ![t].pc = "custom_applied",
                                    ![t].custom_post_doc = NoPost]
    /\ UNCHANGED <<lifecycle_vars, signal_vars, dialog_vars>>
    /\ UNCHANGED <<emoji_collection, pending_custom_posts, rng, hash_key,
                   assigned>>

\* handle_custom_emoji_input after apply_custom_reactions: the pending
\* custom post of the user is dropped (a KeyError, when another bot's
\* handler dropped it first, is caught and only reported)
CustomApplied(t) ==
    /\ handlers[t].pc = "custom_applied"
    /\ pending_custom_posts' =
          MapDel(pending_custom_posts, handlers[t].event.user_id)
    /\ handlers' = [handlers EXCEPT ![t] = NoHandler]
    /\ UNCHANGED <<lifecycle_vars, signal_vars, dialog_vars>>
    /\ UNCHANGED <<emoji_collection, custom_posts_collection, rng, hash_key,
                   assigned, reactions>>

\* custom_command: a link that parses has the bots' reactions removed from
\* the post and becomes the user's pending custom post.  It is a coroutine
\* of the manager bot's loop, so it runs only while that bot's message
\* handler is not between its start and its first await.
CustomCommand(user_id, parts) ==
    /\ ManagerPolling
    /\ \A t \in ThreadIds :
          threads[t].is_main_bot
              => handlers[t].pc \in {"idle", "custom_applied"}
    /\ Cardinality(custom_posts_collection)
          + Cardinality(DOMAIN pending_custom_posts) < MaxCustomPosts
    /\ LET post_info == parse_post_link(parts)
       IN  IF post_info = {}
           THEN UNCHANGED <<pending_custom_posts, reactions>>
           ELSE LET info == CHOOSE i \in post_info : TRUE
                IN  /\ pending_custom_posts' =
                          MapPut(pending_custom_posts, user_id, info)
                    /\ IF LastRunningBots = {} THEN UNCHANGED reactions
                       ELSE \E last_bot \in LastRunningBots :
                              reactions' = SetReaction(last_bot, info.chat_id,
                                                       info.message_id, "")
    /\ UNCHANGED <<lifecycle_vars, signal_vars, dialog_vars>>
    /\ UNCHANGED <<emoji_collection, custom_posts_collection, rng, hash_key,
                   handlers, assigned>>

----------------------------------------------------------------------------
(* The reaction specification: two bots of a persisted chain are polling,  *)
(* and the channel's posts and the user's private messages reach them.     *)

\* the packs a user saved with /emoji2, /emoji3, ...
PackEmojis(n) == <<"e" \o ToString(n) \o "a", "e" \o ToString(n) \o "b">>

\* db['emojis'] with the packs 1..n: pack 1 is the default pack that
\* load_emojis_from_database saved; no pack at all after deletions
EmojiStore(n) ==
    [k \in 1..n |-> IF k = 1 THEN DEFAULT_EMOJIS ELSE PackEmojis(k)]

\* assign_emoji_pack_to_bot, evaluated alone at the bot's start
assign_emoji_pack_to_bot(bot_name, collection, key) ==
    LET all_packs == get_all_emoji_packs(collection)
    IN  IF all_packs = <<>> THEN DEFAULT_EMOJIS
        ELSE Choice(SeedState(BotNameString(bot_name), key),
                    all_packs).value.emojis

PollingThread(bot) ==
    [NoThread EXCEPT !.pc = "polling", !.name = bot.name,
        !.token = bot.token, !.port = bot.port,
        !.is_main_bot = IsMainBot(bot, PersistedBots)]

\* the process after start_all_bots on the persisted chain, with the emoji
\* store one of `stores`
StartedOn(stores) ==
    /\ bots_collection = PersistedBots
    /\ next_id = 3
    /\ running_instances = {b.token : b \in PersistedBots}
    /\ instance_lock = 0
    /\ system_running = TRUE
    /\ threads = [t \in ThreadIds |->
                    LET started == {b \in PersistedBots : b.id = t}
                    IN  IF started = {} THEN NoThread
                        ELSE PollingThread(CHOOSE b \in started : TRUE)]
    /\ commands = [c \in CommandIds |-> NoCommand]
    /\ emoji_collection \in stores
    /\ hash_key \in 0..MaxHashKey
    /\ bot_emoji_assignment =
          [name \in {b.name : b \in PersistedBots} |->
              assign_emoji_pack_to_bot(name, emoji_collection, hash_key)]
    /\ running_bots =
          [name \in {b.name : b \in PersistedBots} |->
              LET bot == CHOOSE b \in PersistedBots : b.name = name
              IN  [port |-> bot.port, token |-> bot.token,
                   emoji_pack |-> bot_emoji_assignment[name]]]
    /\ custom_posts_collection = {}
    /\ pending_custom_posts = EmptyMap
    /\ rng = 0
    /\ handlers = [t \in ThreadIds |-> NoHandler]
    /\ assigned = EmptyMap
    /\ reactions = NoReaction
    /\ sweep = NoSweep
    /\ delete_dialog = NoDialog

ReactInit == StartedOn({EmojiStore(n) : n \in 0..MaxPackNumber})

HandlerStep(t) ==
    \/ \E event \in Events : HandleMessage(t, event)
    \/ PackChoice(t)
    \/ ItemSeed(t)
    \/ ItemChoice(t)
    \/ React(t)
    \/ CustomInsert(t)
    \/ CustomApplied(t)

ReactNext ==
    \/ \E t \in ThreadIds : HandlerStep(t)
    \/ \E parts \in PostLinks : CustomCommand(UserId, parts)

ReactSpec == ReactInit /\ [][ReactNext]_vars

----------------------------------------------------------------------------
(* Claims about the emoji resolution (ReactSpec). *)

\* get_random_pack_for_message, evaluated alone: the pack of a message
get_random_pack_for_message(message_id, collection, key) ==
    LET all_packs == get_all_emoji_packs(collection)
    IN  IF all_packs = <<>> THEN DEFAULT_EMOJIS
        ELSE Choice(SeedState(MsgString(message_id), key),
                    all_packs).value.emojis

Items(list) == {list[i] : i \in DOMAIN list}
BotNames == {b.name : b \in bots_collection}

\* the strings by which the transport addresses the chat of an event: its
\* numeric id and, for the public channel, its @username
ChatKeys(event) ==
    IF event.chat_id = ChannelChatId
    THEN {ToString(event.chat_id), "@" \o ChannelName}
    ELSE {ToString(event.chat_id)}

\* the custom posts stored for the post an event is about
OverridesFor(event) ==
    {d \in custom_posts_collection :
        d.chat_id \in ChatKeys(event) /\ d.message_id = event.message_id}

\* C8: with the packs unchanged and no custom post for the message, the
\* items logged for two different bots and one message are both elements of
\* the one pack that the message id selects, whichever bot evaluated it.
C8_SamePackForEveryBot ==
    \A n1, n2 \in BotNames : \A m \in MessageIds :
        (/\ n1 # n2
         /\ <<n1, m>> \in DOMAIN assigned
         /\ <<n2, m>> \in DOMAIN assigned
         /\ ~ \E d \in custom_posts_collection : d.message_id = m)
        => LET pack == Items(get_random_pack_for_message(m, emoji_collection,
                                                         hash_key))
           IN  assigned[<<n1, m>>] \in pack /\ assigned[<<n2, m>>] \in pack

\* C9: with the packs unchanged, an evaluation of the item of a bot for a
\* message returns the item that the previous evaluation for the same bot
\* and message returned.
C9_ItemIsStable ==
    [][\A t \in ThreadIds :
          LET key == <<threads[t].name, handlers[t].event.message_id>>
          IN  (/\ handlers[t].pc = "item_choice"
               /\ handlers'[t].pc = "react"
               /\ key \in DOMAIN assigned)
              => handlers'[t].emoji = assigned[key]]_vars

\* C10: when a custom post is stored for the post an inbound event is about,
\* the handler resolves an item of the custom list and does not enter the
\* pack-based assignment.
C10_OverrideWins ==
    [][\A t \in ThreadIds :
          (/\ handlers[t].pc = "idle"
           /\ handlers'[t].pc # "idle"
           /\ OverridesFor(handlers'[t].event) # {})
          => /\ handlers'[t].source = "custom"
             /\ \E d \in OverridesFor(handlers'[t].event) :
                   handlers'[t].emoji \in Items(d.custom_emojis)]_vars

\* C11: the custom posts collection holds at most one document per post
\* (chat id, message id), also when two messages that complete a custom
\* post for the same target are handled by two bots at once.
C11_OneOverridePerTarget ==
    \A d1, d2 \in custom_posts_collection :
        (d1.chat_id = d2.chat_id /\ d1.message_id = d2.message_id) => d1 = d2

----------------------------------------------------------------------------
(* The chain specification: /clone and /unclone are handled one at a time  *)
(* and each runs to its end, with the bot's thread, before the next; chain *)
(* signals are forwarded over a store that no command is changing.         *)

ChainThreadIds == 1..MaxRecords

\* tokens a user can pass to /clone here
ChainTokens == CloneTokens \cup {"tokD"}

\* a started worker of start_single_bot_sync that reached its polling loop
StartedThread(bot_config, bots) ==
    [NoThread EXCEPT !.pc = "polling", !.name = bot_config.name,
        !.token = bot_config.token, !.port = bot_config.port,
        !.is_main_bot = IsMainBot(bot_config, bots)]

\* what start_single_bot_sync stores in self.running_bots
BotInfo(bot_config, bot_emoji_pack) ==
    [port |-> bot_config.port, token |-> bot_config.token,
     emoji_pack |-> bot_emoji_pack]

\* clone_command from the conflict checks to the started thread, and that
\* thread up to its polling loop
Join(new_token) ==
    /\ sweep.pc = "idle"
    /\ delete_dialog.pc = "idle"
    /\ ManagerPolling
    /\ next_id <= MaxRecords
    /\ CloneConflict(new_token) = "none"
    /\ \E last_bot \in LastBotChoices(bots_collection) :
          LET bot_name == CloneName(Cardinality(bots_collection))
              all_bots == AddBotWith(bots_collection, next_id, bot_name,
                                     new_token, last_bot)
              new_bot == CHOOSE b \in all_bots : b.id = next_id
              bot_emoji_pack == assign_emoji_pack_to_bot(bot_name,
                                    emoji_collection, hash_key)
          IN  /\ bots_collection' = all_bots
              /\ threads' = [threads EXCEPT ![next_id] =
                                  StartedThread(new_bot, all_bots)]
              /\ running_instances' = running_instances \cup {new_token}
              /\ bot_emoji_assignment' =
                    MapPut(bot_emoji_assignment, bot_name, bot_emoji_pack)
              /\ running_bots' =
                    MapPut(running_bots, bot_name,
                           BotInfo(new_bot, bot_emoji_pack))
    /\ next_id' = next_id + 1
    /\ commands' = Reply(1, "cloned")
    /\ UNCHANGED <<instance_lock, system_running>>
    /\ UNCHANGED <<assign_vars, signal_vars, dialog_vars>>

\* unclone_command for the bot whose username was found, and that bot's
\* thread from its next poll to the end of its cleanup
Leave(target_bot) ==
    /\ sweep.pc = "idle"
    /\ delete_dialog.pc = "idle"
    /\ ManagerPolling
    /\ target_bot \in bots_collection
    /\ IF IsMainToken(target_bot.token)
       THEN /\ commands' = Reply(1, "cannot_unclone_main")
            /\ UNCHANGED <<bots_collection, running_instances, running_bots,
                           threads>>
       ELSE /\ commands' = Reply(1, "uncloned")
            /\ running_instances' = running_instances \ {target_bot.token}
            /\ running_bots' = MapDel(running_bots, target_bot.name)
            /\ bots_collection' = Relink(bots_collection, target_bot)
            /\ threads' = [threads EXCEPT ![target_bot.id].pc = "done"]
    /\ UNCHANGED <<next_id, instance_lock, bot_emoji_assignment,
                   system_running>>
    /\ UNCHANGED <<assign_vars, signal_vars, dialog_vars>>

\* message_handler, last statement: the bot that handled an event starts
\* send_signal_to_next_bot(bot_name) in a thread
SweepStart(t) ==
    /\ sweep.pc = "idle"
    /\ threads[t].pc = "polling"
    /\ sweep' = [NoSweep EXCEPT !.pc = "sending", !.origin = t,
                                !.bot_name = threads[t].name]
    /\ UNCHANGED <<lifecycle_vars, assign_vars, dialog_vars>>

\* the Flask servers of this process that hold a port: the server of a bot
\* thread keeps running after the bot stopped
Listeners(port) ==
    {t \in DOMAIN threads :
        threads[t].pc \in {"polling", "done"} /\ threads[t].port = port}

\* send_signal_to_next_bot(bot_name), the lookup: the next_url of the
\* document found by name, for the bot whose turn it is in the sweep
SweepUrl ==
    LET bot == FindOne({b \in bots_collection : b.name = sweep.bot_name})
    IN  IF bot = {} THEN NoUrl ELSE (CHOOSE b \in bot : TRUE).next_url

\* a defective sender: after a failed request the signal is sent again from
\* the bot that handled the event
Retried(s) == [s EXCEPT !.bot_name = threads[s.origin].name]

\* send_signal_to_next_bot, the except clauses: a request that failed or
\* timed out is logged, and the thread ends
Undelivered(s) == [s EXCEPT !.pc = "lost"]

\* send_signal_to_next_bot(bot_name): the document is looked up by name and
\* its next_url is posted to (sweep.posts: the requests sent so far, as
\* their parity); handle_signal of the server that holds the port starts
\* send_signal_to_next_bot with that server's bot_name
SweepSend ==
    /\ sweep.pc = "sending"
    /\ LET bot == FindOne({b \in bots_collection : b.name = sweep.bot_name})
           next_url == IF bot = {} THEN NoUrl
                       ELSE (CHOOSE b \in bot : TRUE).next_url
       IN  IF next_url = NoUrl
           THEN sweep' = [sweep EXCEPT !.pc = "done"]
           ELSE LET listening == Listeners(next_url[2])
                IN  IF listening = {}
                    THEN sweep' = Undelivered(sweep)
                    ELSE LET t == CHOOSE l \in listening :
                                     \A o \in listening : l <= o
                         IN  sweep' = [sweep EXCEPT
                                 !.bot_name = threads[t].name,
                                 !.received = sweep.received \cup {t},
                                 !.posts = (sweep.posts + 1) % 2]
    /\ UNCHANGED <<lifecycle_vars, assign_vars, dialog_vars>>

\* send_signal_to_next_bot(bot_name), the except clauses: requests.post
\* raised (connection error, or no answer within the timeout of 5 seconds)
SweepFail ==
    /\ sweep.pc = "sending"
    /\ SweepUrl # NoUrl
    /\ sweep' = Undelivered(sweep)
    /\ UNCHANGED <<lifecycle_vars, assign_vars, dialog_vars>>

\* the process after start_all_bots: on a new store, or on the two
\* documents that an earlier run left
ChainInit ==
    /\ \/ /\ bots_collection =
               AddBotWith({}, 1, "main_bot", MainToken, {})
          /\ next_id = 2
       \/ /\ bots_collection = PersistedBots
          /\ next_id = 3
    /\ running_instances = {b.token : b \in bots_collection}
    /\ instance_lock = 0
    /\ system_running = TRUE
    /\ threads = [t \in ChainThreadIds |->
                    IF \E b \in bots_collection : b.id = t
                    THEN StartedThread(CHOOSE b \in bots_collection :
                                          b.id = t, bots_collection)
                    ELSE NoThread]
    /\ commands = [c \in CommandIds |-> NoCommand]
    /\ emoji_collection = EmojiStore(1)
    /\ hash_key = 0
    /\ bot_emoji_assignment =
          [name \in {b.name : b \in bots_collection} |->
              assign_emoji_pack_to_bot(name, emoji_collection, hash_key)]
    /\ running_bots =
          [name \in {b.name : b \in bots_collection} |->
              BotInfo(CHOOSE b \in bots_collection : b.name = name,
                      bot_emoji_assignment[name])]
    /\ custom_posts_collection = {}
    /\ pending_custom_posts = EmptyMap
    /\ rng = 0
    /\ handlers = [t \in ThreadIds |-> NoHandler]
    /\ assigned = EmptyMap
    /\ reactions = NoReaction
    /\ sweep = NoSweep
    /\ delete_dialog = NoDialog

ChainNext ==
    \/ \E new_token \in ChainTokens : Join(new_token)
    \/ \E target_bot \in bots_collection : Leave(target_bot)
    \/ \E t \in DOMAIN threads : SweepStart(t)
    \/ SweepSend

ChainSpec == ChainInit /\ [][ChainNext]_vars

\* the chain with requests that can fail
SignalNext ==
    \/ \E new_token \in ChainTokens : Join(new_token)
    \/ \E target_bot \in bots_collection : Leave(target_bot)
    \/ \E t \in DOMAIN threads : SweepStart(t)
    \/ SweepSend
    \/ SweepFail

SignalSpec == ChainInit /\ [][SignalNext]_vars

\* the thread that forwards a signal is scheduled
ChainFairSpec == ChainSpec /\ WF_vars(SweepSend)

----------------------------------------------------------------------------
(* Claims about the chain (ChainSpec, ChainFairSpec). *)

\* the head of the chain: no document points to it, and it has the lowest
\* port
IsHead(bots, id) ==
    \E h \in bots :
        /\ h.id = id
        /\ \A b \in bots : b.next_url # SignalUrl(h.port)
        /\ \A b \in bots : h.port <= b.port

\* C12: after joins and leaves handled one at a time, with every bot running
\* and every delivery succeeding, a chain signal that the head starts has
\* reached every other bot of the store when it stops being forwarded.
C12_SweepFromHeadReachesAll ==
    (sweep.pc = "done" /\ IsHead(bots_collection, sweep.origin))
        => \A b \in bots_collection :
              b.id \in sweep.received \cup {sweep.origin}

\* C13: a chain signal started at any bot is forwarded finitely often and
\* stops at a document whose next_url is empty.
C13_SweepTerminates == (sweep.pc = "sending") ~> (sweep.pc = "done")

\* C14: no two documents of the bots collection have the same name.
C14_UniqueNames ==
    \A a, b \in bots_collection : a.name = b.name => a = b

----------------------------------------------------------------------------
(* The concurrent-command specification: the manager bot's application is  *)
(* built with concurrent_updates(True), so two command coroutines can be   *)
(* between their awaits at the same time.                                  *)

CommandStep(c) ==
    \/ \E new_token \in CloneTokens \cup {MainToken} : CloneCheck(c, new_token)
    \/ \E token_ok \in BOOLEAN : CloneValidate(c, token_ok)
    \/ CloneAdd(c)
    \/ \E found \in Found : UncloneSearch(c, found)
    \/ UncloneRemove(c)

ConcurrentNext ==
    \/ StartAllBots
    \/ \E t \in ThreadIds : ThreadStep(t)
    \/ \E c \in CommandIds : CommandStep(c)

ConcurrentSpec == Init /\ [][ConcurrentNext]_vars

\* C15: no two documents of the bots collection have the same token, also
\* when two /clone commands with the same token are handled at once.
C15_UniqueTokens ==
    \A a, b \in bots_collection : a.token = b.token => a = b

----------------------------------------------------------------------------
(* Claims about the worker loop (FairSpec). *)

\* C16: a polling worker whose token is not in the running set ends its loop
\* and its thread, unless the token is added again; and a worker leaves its
\* polling loop only when the running set does not hold its token.
C16_RemovalStopsWorker ==
    /\ \A t \in ThreadIds :
          [](  (threads[t].pc = "polling"
                  /\ threads[t].token \notin running_instances)
            => <>(\/ threads[t].pc = "done"
                  \/ threads[t].token \in running_instances))
    /\ [][\A t \in ThreadIds :
             (threads[t].pc = "polling" /\ threads'[t].pc # "polling")
                => threads[t].token \notin running_instances]_vars

\* an uncloned bot's worker has ended
C16_Witness ==
    \E t \in ThreadIds :
        /\ threads[t].pc = "done"
        /\ threads[t].token \notin running_instances
        /\ ~ \E b \in bots_collection : b.id = t
        /\ commands[1].reply = "uncloned"

----------------------------------------------------------------------------
(* The emoji pack commands of the manager bot: /emoji<n>, /emoji_list,     *)
(* /del_emoji<n> and the two buttons of the delete confirmation.  They are *)
(* coroutines of the manager bot's loop; the other bots' message handlers  *)
(* run in their own threads and interleave with them.                      *)

\* pack numbers the commands are used with
PackNumbers == 1..MaxPackCommand

\* the argument of /emoji<n>: "[e<n>a,e<n>b]", or "[]"
PackTexts(pack_number) ==
    {[brackets |-> TRUE, items |-> PackEmojis(pack_number)],
     [brackets |-> TRUE, items |-> <<>>]}

\* the manager bot's loop is between two coroutines: its message handler
\* and its delete confirmation are not between their awaits
ManagerLoopFree ==
    /\ ManagerPolling
    /\ delete_dialog.pc = "idle"
    /\ \A t \in DOMAIN handlers :
          threads[t].is_main_bot
              => handlers[t].pc \in {"idle", "custom_applied"}

\* the confirmation keyboards on display, as their pack numbers
ShowKeyboard(keyboards, pack_number) == Append(keyboards, pack_number)
HasKeyboard(keyboards, pack_number) ==
    \E i \in DOMAIN keyboards : keyboards[i] = pack_number
EditKeyboard(keyboards, pack_number) ==
    LET i == CHOOSE k \in DOMAIN keyboards : keyboards[k] = pack_number
    IN  SubSeq(keyboards, 1, i - 1)
            \o SubSeq(keyboards, i + 1, Len(keyboards))

\* a defective deletion: every pack is removed
DeleteEveryPack(collection, pack_name) == NoPacks

\* emoji_collection.delete_one({"pack_name": pack_name})
delete_one(collection, pack_name) ==
    [n \in DOMAIN collection \ {pack_name} |-> collection[n]]

\* emoji_pack_command with an argument: a bracketed list that is empty or
\* longer than 20 is refused, any other is saved; no assignment is touched
EmojiPackCommand(pack_number, text) ==
    /\ ManagerLoopFree
    /\ LET emoji_list == text.items
       IN  IF ~text.brackets
           THEN /\ commands' = Reply(1, "invalid_format")
                /\ UNCHANGED emoji_collection
           ELSE IF emoji_list = <<>> \/ Len(emoji_list) > 20
           THEN /\ commands' = Reply(1, "no_valid_emojis")
                /\ UNCHANGED emoji_collection
           ELSE /\ commands' = Reply(1, "pack_saved")
                /\ emoji_collection' =
                      save_emoji_pack(emoji_collection, pack_number,
                                      emoji_list)
    /\ UNCHANGED <<bots_collection, next_id, running_instances, instance_lock,
                   running_bots, bot_emoji_assignment, system_running,
                   threads>>
    /\ UNCHANGED <<custom_posts_collection, pending_custom_posts, rng,
                   hash_key, handlers, assigned, reactions>>
    /\ UNCHANGED <<signal_vars, dialog_vars>>

\* emoji_list_command: the packs are read and listed
EmojiListCommand ==
    /\ ManagerLoopFree
    /\ commands' = Reply(1, IF get_all_emoji_packs(emoji_collection) = <<>>
                            THEN "no_packs" ELSE "emoji_list")
    /\ UNCHANGED <<bots_collection, next_id, running_instances, instance_lock,
                   running_bots, bot_emoji_assignment, system_running,
                   threads>>
    /\ UNCHANGED <<assign_vars, signal_vars, dialog_vars>>

\* delete_emoji_pack_command: a pack that exists gets a confirmation
\* message with the two buttons
DeletePackCommand(pack_number) ==
    /\ ManagerLoopFree
    /\ Len(delete_dialog.keyboards) < MaxKeyboards
    /\ IF pack_number \notin DOMAIN emoji_collection
       THEN /\ commands' = Reply(1, "pack_not_found")
            /\ UNCHANGED delete_dialog
       ELSE /\ commands' = Reply(1, "delete_confirmation")
            /\ delete_dialog' =
                  [delete_dialog EXCEPT
                      !.keyboards = ShowKeyboard(@, pack_number)]
    /\ UNCHANGED <<bots_collection, next_id, running_instances, instance_lock,
                   running_bots, bot_emoji_assignment, system_running,
                   threads>>
    /\ UNCHANGED <<assign_vars, signal_vars>>

\* handle_delete_confirmation, "delete_pack_": a pack that is gone is
\* reported; otherwise delete_one removes it and the loop over
\* self.running_bots.keys() starts
DeleteConfirm(pack_number) ==
    /\ ManagerLoopFree
    /\ HasKeyboard(delete_dialog.keyboards, pack_number)
    /\ IF pack_number \notin DOMAIN emoji_collection
       THEN /\ commands' = Reply(1, "pack_already_deleted")
            /\ delete_dialog' =
                  [delete_dialog EXCEPT
                      !.keyboards = EditKeyboard(@, pack_number)]
            /\ UNCHANGED emoji_collection
       ELSE /\ emoji_collection' = delete_one(emoji_collection, pack_number)
            /\ delete_dialog' =
                  [delete_dialog EXCEPT !.pc = "reassign",
                      !.pack_name = pack_number,
                      !.bot_names = DOMAIN running_bots]
            /\ UNCHANGED commands
    /\ UNCHANGED <<bots_collection, next_id, running_instances, instance_lock,
                   running_bots, bot_emoji_assignment, system_running,
                   threads>>
    /\ UNCHANGED <<custom_posts_collection, pending_custom_posts, rng,
                   hash_key, handlers, assigned, reactions>>
    /\ UNCHANGED signal_vars

\* the loop's assign_emoji_pack_to_bot(bot_name) down to random.seed; with
\* no packs the default list is assigned without touching the generator
ReassignSeed ==
    /\ delete_dialog.pc = "reassign"
    /\ \E bot_name \in delete_dialog.bot_names :
          LET all_packs == get_all_emoji_packs(emoji_collection)
          IN  IF all_packs = <<>>
              THEN /\ bot_emoji_assignment' =
                         MapPut(bot_emoji_assignment, bot_name, DEFAULT_EMOJIS)
                   /\ delete_dialog' =
                         [delete_dialog EXCEPT !.bot_names = @ \ {bot_name}]
                   /\ UNCHANGED rng
              ELSE /\ rng' = SeedState(BotNameString(bot_name), hash_key)
                   /\ delete_dialog' =
                         [delete_dialog EXCEPT !.pc = "choice",
                             !.bot_name = bot_name, !.all_packs = all_packs]
                   /\ UNCHANGED bot_emoji_assignment
    /\ UNCHANGED <<bots_collection, next_id, running_instances, instance_lock,
                   running_bots, system_running, threads, commands>>
    /\ UNCHANGED <<emoji_collection, custom_posts_collection,
                   pending_custom_posts, hash_key, handlers, assigned,
                   reactions>>
    /\ UNCHANGED signal_vars

\* random.choice(all_packs), and self.bot_emoji_assignment[bot_name] is set
ReassignChoice ==
    /\ delete_dialog.pc = "choice"
    /\ LET c == Choice(rng, delete_dialog.all_packs)
       IN  /\ rng' = c.state
           /\ bot_emoji_assignment' =
                 MapPut(bot_emoji_assignment, delete_dialog.bot_name,
                        c.value.emojis)
    /\ delete_dialog' =
          [delete_dialog EXCEPT !.pc = "reassign",
              !.bot_names = @ \ {delete_dialog.bot_name},
              !.bot_name = "", !.all_packs = <<>>]
    /\ UNCHANGED <<bots_collection, next_id, running_instances, instance_lock,
                   running_bots, system_running, threads, commands>>
    /\ UNCHANGED <<emoji_collection, custom_posts_collection,
                   pending_custom_posts, hash_key, handlers, assigned,
                   reactions>>
    /\ UNCHANGED signal_vars

\* the loop is over: the confirmation message is edited to the result
DeleteEdited ==
    /\ delete_dialog.pc = "reassign"
    /\ delete_dialog.bot_names = {}
    /\ commands' = Reply(1, "pack_deleted")
    /\ delete_dialog' =
          [NoDialog EXCEPT
              !.keyboards = EditKeyboard(delete_dialog.keyboards,
                                         delete_dialog.pack_name)]
    /\ UNCHANGED <<bots_collection, next_id, running_instances, instance_lock,
                   running_bots, bot_emoji_assignment, system_running,
                   threads>>
    /\ UNCHANGED <<assign_vars, signal_vars>>

\* handle_delete_confirmation, "cancel_delete_": only the message is edited
DeleteCancel(pack_number) ==
    /\ ManagerLoopFree
    /\ HasKeyboard(delete_dialog.keyboards, pack_number)
    /\ commands' = Reply(1, "delete_cancelled")
    /\ delete_dialog' =
          [delete_dialog EXCEPT !.keyboards = EditKeyboard(@, pack_number)]
    /\ UNCHANGED <<bots_collection, next_id, running_instances, instance_lock,
                   running_bots, bot_emoji_assignment, system_running,
                   threads>>
    /\ UNCHANGED <<assign_vars, signal_vars>>

\* a step of /del_emoji<n> or of its confirmation
DeleteStep ==
    \/ \E n \in PackNumbers : DeletePackCommand(n)
    \/ \E n \in PackNumbers : DeleteConfirm(n)
    \/ ReassignSeed
    \/ ReassignChoice
    \/ DeleteEdited
    \/ \E n \in PackNumbers : DeleteCancel(n)

\* a step of /emoji<n> or of /emoji_list
SavePackStep ==
    \/ \E n \in PackNumbers : \E text \in PackTexts(n) :
          EmojiPackCommand(n, text)
    \/ EmojiListCommand

\* a post of the channel reaches every bot once: the bot has no "assigned
\* emoji" line for it yet
NewPost(t, event) ==
    <<threads[t].name, event.message_id>> \notin DOMAIN assigned

\* a step of a bot's message handler on a post of the channel
ChannelStep(t) ==
    \/ \E event \in ChannelEvents :
          NewPost(t, event) /\ HandleMessage(t, event)
    \/ PackChoice(t)
    \/ ItemSeed(t)
    \/ ItemChoice(t)
    \/ React(t)

PackNext ==
    \/ DeleteStep
    \/ \E t \in ThreadIds : ChannelStep(t)

PackInit == StartedOn({EmojiStore(n) : n \in 0..MaxPackCommand})

\* two bots are polling, packs are deleted and the channel posts
PackSpec == PackInit /\ [][PackNext]_vars

----------------------------------------------------------------------------
(* Claims about the pack commands (PackSpec). *)

\* the confirmed deletion has run to its end in this step
DeleteCompletes ==
    delete_dialog.pc = "reassign" /\ delete_dialog'.pc = "idle"

\* C17: when a confirmed pack deletion completes, it reports the deletion
\* and every bot of running_bots, whatever pack it had, is assigned what
\* assign_emoji_pack_to_bot gives for its name over the packs that remain
\* (the default list when none remains).
C17_DeleteReassignsAll ==
    [][DeleteCompletes =>
          /\ commands'[1].reply = "pack_deleted"
          /\ \A bot_name \in DOMAIN running_bots' :
                bot_emoji_assignment'[bot_name] =
                    assign_emoji_pack_to_bot(bot_name, emoji_collection',
                                             hash_key)]_vars

----------------------------------------------------------------------------
(* The management specification: the manager bot handles /clone, /unclone, *)
(* /emoji<n> and /emoji_list one at a time, each to its end.               *)

ManageNext ==
    \/ \E new_token \in ChainTokens : Join(new_token)
    \/ \E target_bot \in bots_collection : Leave(target_bot)
    \/ SavePackStep

ManageSpec == ChainInit /\ [][ManageNext]_vars

\* C18: while a bot runs (it is polling before and after the step), the
\* entry of bot_emoji_assignment under its name changes only in the
\* reassignment loop of a confirmed pack deletion.
C18_AssignmentChangesOnlyAtDelete ==
    [][\A t \in DOMAIN threads :
          (/\ threads[t].pc = "polling"
           /\ threads'[t].pc = "polling"
           /\ bot_emoji_assignment'[threads[t].name]
                 # bot_emoji_assignment[threads[t].name])
              => delete_dialog.pc \in {"reassign", "choice"}]_vars

----------------------------------------------------------------------------
(* Claims about the pack a bot reacts from (ReactSpec: no pack command is  *)
(* handled, so no pack is deleted, and bot_emoji_assignment holds what     *)
(* each bot was assigned at its start).                                    *)

\* bot thread t sets its reaction on a post that has no custom emojis
ReactsFromPack(t) ==
    /\ handlers[t].pc = "react"
    /\ handlers'[t].pc = "idle"
    /\ handlers[t].source = "pack"
    /\ handlers[t].event.chat_type = "channel"

\* C19: a bot that reacts to a post without custom emojis, with no pack
\* deleted since its start, reacts with an emoji of the pack it was
\* assigned at its start (its entry of bot_emoji_assignment).
C19_ReactsFromOwnPack ==
    [][\A t \in ThreadIds :
          ReactsFromPack(t) =>
              /\ reactions'.bot_name = threads[t].name
              /\ reactions'.emoji
                    \in Items(bot_emoji_assignment[threads[t].name])]_vars

----------------------------------------------------------------------------
(* The fallback specification: as PackSpec, on a store that may hold a     *)
(* pack without emojis.  No command of the bot writes such a pack (an      *)
(* empty list is refused); another client of the database does.            *)

\* EmojiStore(n) with the emojis of pack k removed
EmptiedStore(n, k) == [EmojiStore(n) EXCEPT ![k] = <<>>]

FallbackStores ==
    {EmojiStore(n) : n \in 0..MaxPackCommand}
        \cup {EmptiedStore(p[1], p[2]) :
                 p \in {q \in PackNumbers \X PackNumbers : q[2] <= q[1]}}

FallbackInit == StartedOn(FallbackStores)

FallbackSpec == FallbackInit /\ [][PackNext]_vars

\* the pack that random.choice gives handler t in get_random_pack_for_message
SelectedPack(t) == Choice(rng, handlers[t].all_packs).value.emojis

\* the bot whose entry the reassignment loop sets in this step
Reassigned(bot_name) ==
    /\ bot_name \in delete_dialog.bot_names
    /\ bot_name \notin delete_dialog'.bot_names

\* C20: with no pack in the store, a bot is assigned the default list, the
\* pack of a message is the default list and the emoji chosen from it is
\* one of the default emojis; when the pack chosen for a message has no
\* emojis, the handler goes on with the first default emoji.
C20_FallsBackToDefault ==
    [][/\ \A bot_name \in DOMAIN running_bots :
             (emoji_collection = NoPacks /\ Reassigned(bot_name))
                => bot_emoji_assignment'[bot_name] = DEFAULT_EMOJIS
       /\ \A t \in ThreadIds :
             /\ (/\ emoji_collection = NoPacks
                 /\ handlers[t].pc = "idle"
                 /\ handlers'[t].pc # "idle")
                   => /\ handlers'[t].pc = "item_seed"
                      /\ handlers'[t].message_pack = DEFAULT_EMOJIS
             /\ (/\ handlers[t].pc = "item_choice"
                 /\ handlers[t].message_pack = DEFAULT_EMOJIS
                 /\ handlers'[t].pc # "item_choice")
                   => /\ handlers'[t].pc = "react"
                      /\ handlers'[t].emoji \in Items(DEFAULT_EMOJIS)
             /\ (/\ handlers[t].pc = "pack_choice"
                 /\ handlers'[t].pc # "pack_choice"
                 /\ SelectedPack(t) = <<>>)
                   => /\ handlers'[t].pc = "react"
                      /\ handlers'[t].emoji = DEFAULT_EMOJIS[1]]_vars

\* no pack is left after a deletion that reassigned every bot the default
\* list; the manager bot's handler got the default list as its message
\* pack; another bot's handler, whose message pack had no emojis, is about
\* to react with the first default emoji, with no emoji chosen and logged
C20_Witness ==
    /\ emoji_collection = NoPacks
    /\ commands[1].reply = "pack_deleted"
    /\ \A bot_name \in DOMAIN running_bots :
          bot_emoji_assignment[bot_name] = DEFAULT_EMOJIS
    /\ \E t, u \in ThreadIds :
          /\ threads[u].is_main_bot
          /\ handlers[u].pc = "item_seed"
          /\ handlers[u].message_pack = DEFAULT_EMOJIS
          /\ ~threads[t].is_main_bot
          /\ handlers[t].pc = "react"
          /\ handlers[t].source = "pack"
          /\ handlers[t].emoji = DEFAULT_EMOJIS[1]
          /\ <<threads[t].name, handlers[t].event.message_id>>
                \notin DOMAIN assigned

----------------------------------------------------------------------------
(* The dialog specification: the manager bot handles the pack commands and *)
(* the buttons of the delete confirmation, one at a time.                  *)

DialogNext ==
    \/ SavePackStep
    \/ DeleteStep

DialogSpec == PackInit /\ [][DialogNext]_vars

\* the step is a /del_emoji<n>: its reply is sent, a keyboard may be shown
IsDeleteRequest ==
    /\ commands'[1].reply \in {"delete_confirmation", "pack_not_found"}
    /\ \/ commands' # commands
       \/ Len(delete_dialog'.keyboards) > Len(delete_dialog.keyboards)

\* the step is a press of the cancel button
IsDeleteCancel ==
    /\ commands'[1].reply = "delete_cancelled"
    /\ Len(delete_dialog'.keyboards) < Len(delete_dialog.keyboards)

\* C21: a /del_emoji<n> changes neither the packs nor any bot's assigned
\* pack; a pack leaves the store only in a step that starts the confirmed
\* deletion of that very pack, whose confirmation keyboard was on display,
\* and no other pack leaves with it; the cancel button changes neither the
\* packs nor any bot's assigned pack.
C21_DeleteIsTwoStep ==
    [][/\ IsDeleteRequest
             => UNCHANGED <<emoji_collection, bot_emoji_assignment>>
       /\ IsDeleteCancel
             => UNCHANGED <<emoji_collection, bot_emoji_assignment>>
       /\ \A n \in DOMAIN emoji_collection \ DOMAIN emoji_collection' :
             /\ HasKeyboard(delete_dialog.keyboards, n)
             /\ delete_dialog.pc = "idle"
             /\ delete_dialog'.pc = "reassign"
             /\ delete_dialog'.pack_name = n
             /\ emoji_collection' = delete_one(emoji_collection, n)]_vars

\* pack emoji1 was deleted after its confirmation while emoji2 stays, and
\* a later request was cancelled
C21_Witness ==
    /\ 1 \notin DOMAIN emoji_collection
    /\ 2 \in DOMAIN emoji_collection
    /\ commands[1].reply = "delete_cancelled"
    /\ delete_dialog = NoDialog

----------------------------------------------------------------------------
(* Claims about the management commands (Spec). *)

\* C22: a bot thread that registered the management commands (/clone,
\* /unclone, /emoji<n>, /emoji_list, /del_emoji<n>, /custom and the
\* confirmation buttons) runs the bot of the primary token; no thread of a
\* cloned bot has them.
C22_CommandsOnPrimaryOnly ==
    \A t \in ThreadIds :
        threads[t].is_main_bot => threads[t].token = MainToken

\* the primary bot and a cloned bot are both polling: the first has the
\* management commands, the second has not
C22_Witness ==
    \E t, u \in ThreadIds :
        /\ threads[t].pc = "polling"
        /\ threads[t].token = MainToken
        /\ threads[t].is_main_bot
        /\ threads[u].pc = "polling"
        /\ threads[u].token # MainToken
        /\ ~threads[u].is_main_bot

----------------------------------------------------------------------------
(* Claims about joins and leaves, one at a time (ChainSpec). *)

\* the step inserts a document into db['bots']
IsJoin == next_id' = next_id + 1

\* C23: in a join, the document whose next_url is rewritten (the one with
\* the greatest port) had an empty next_url before the join.
C23_JoinRelinksEmptyTail ==
    [][IsJoin =>
          \A b \in bots_collection : \A a \in bots_collection' :
              (a.id = b.id /\ a.next_url # b.next_url)
                  => b.next_url = NoUrl]_vars

----------------------------------------------------------------------------
(* Claims about /unclone and the worker it stops (Spec). *)

\* the document b leaves db['bots'] in this step
Deleted(b) == b \in bots_collection /\ ~HasId(bots_collection', b.id)

\* C24: when /unclone deletes a bot's document, no thread of that bot is
\* in its polling loop any more.
C24_DeletedAfterWorkerStopped ==
    [][\A b \in bots_collection :
          Deleted(b) =>
              \A t \in ThreadIds :
                  ~(threads[t].token = b.token
                       /\ threads[t].pc = "polling")]_vars

\* every thread that was started for a bot of this name has ended
Stopped(bot_name) ==
    /\ \E t \in ThreadIds : threads[t].name = bot_name
    /\ \A t \in ThreadIds :
          threads[t].name = bot_name => threads[t].pc = "done"

\* C25: a bot whose worker has ended, after /unclone or for any other
\* reason, has no entry in bot_emoji_assignment.
C25_StoppedHasNoAssignment ==
    \A bot_name \in DOMAIN bot_emoji_assignment : ~Stopped(bot_name)

----------------------------------------------------------------------------
(* Claims about overlapping lifecycle operations (Spec, ConcurrentSpec). *)

\* the lifecycle operations in progress for a token: /clone coroutines
\* between their checks and the started thread, /unclone coroutines between
\* the search and the removal, threads that are starting, threads that are
\* stopping
JoinsOf(token) ==
    {c \in CommandIds :
        commands[c].pc \in {"validate", "add"} /\ commands[c].token = token}
LeavesOf(token) ==
    {c \in CommandIds :
        commands[c].pc = "remove" /\ commands[c].target.token = token}
StartsOf(token) ==
    {t \in ThreadIds :
        /\ threads[t].token = token
        /\ threads[t].pc \in {"start", "add", "setup", "assign_choice",
                              "initialize"}}
StopsOf(token) ==
    {t \in ThreadIds :
        /\ threads[t].token = token
        /\ \/ threads[t].pc = "cleanup"
           \/ threads[t].pc = "polling" /\ token \notin running_instances}
InProgress(token) ==
    Cardinality(JoinsOf(token)) + Cardinality(LeavesOf(token))
        + Cardinality(StartsOf(token)) + Cardinality(StopsOf(token))

\* C26: for one token, at most one of join, start, stop and leave is in
\* progress at any time.
C26_OneOperationPerToken ==
    \A token \in CloneTokens \cup {MainToken} : InProgress(token) <= 1

\* no join, start, stop or leave is in progress for any token
NoOperationInProgress ==
    \A token \in CloneTokens \cup {MainToken} : InProgress(token) = 0

\* C27: when no lifecycle operation is in progress, every token of the
\* running set is the token of a document of db['bots'].
C27_RunningHasDocument ==
    NoOperationInProgress =>
        \A token \in running_instances :
            \E b \in bots_collection : b.token = token

\* the documents of db['bots'] whose next_url is the signal url of X
PointingAt(X) == {b \in bots_collection : b.next_url = SignalUrl(X.port)}

\* the frame of one removal of X: X's document is gone, no other document
\* is removed or added, at most one document is rewritten, a rewritten
\* document pointed at X and now holds the next_url X's document had, only
\* next_url is rewritten, and a predecessor of X, if any, is rewritten
LeaveFrame(X) ==
    LET stored  == {b \in bots_collection : b.id = X.id}
        kept(b) == {n \in bots_collection' : n.id = b.id}
        changed == {b \in bots_collection \ stored : kept(b) # {b}}
    IN  /\ \A n \in bots_collection' :
              n.id # X.id /\ \E b \in bots_collection : b.id = n.id
        /\ \A b \in bots_collection \ stored : kept(b) # {}
        /\ Cardinality(changed) <= 1
        /\ \A b \in changed : \A n \in kept(b) :
              /\ b \in PointingAt(X)
              /\ n = [b EXCEPT !.next_url = n.next_url]
              /\ \E x \in stored : n.next_url = x.next_url
        /\ (PointingAt(X) \ stored # {}) =>
              \E b \in PointingAt(X) \ stored : \A n \in kept(b) :
                  \E x \in stored : n.next_url = x.next_url

\* C28: a leave of X removes X's document and rewrites at most the next_url
\* of the one document that pointed at X, which becomes X's next_url; every
\* other document keeps its name, token, port and next_url.
C28_LeaveChangesTwoThings ==
    [][\A c \in CommandIds :
          (commands[c].pc = "remove" /\ commands'[c].pc # "remove")
              => LeaveFrame(commands[c].target)]_vars

\* the servers that answer on the next_url of the bot whose turn it is
SweepAnswers == IF SweepUrl = NoUrl THEN {} ELSE Listeners(SweepUrl[2])

C30_ReceiverReactsThenForwards ==
    [][(sweep.pc = "sending" /\ sweep.received # {} /\ sweep' # sweep)
          => reactions.bot_name = sweep.bot_name]_vars

----------------------------------------------------------------------------
(* The two store writes of a join and of a leave, statement by statement.  *)
(* Between the two writes of one command the store is what a signal        *)
(* thread reads and what is left behind when the process is killed.        *)

\* add_bot_to_database up to insert_one: the port, the document that
\* find_one(sort port desc) returned, and the inserted document
InsertNewBot(new_token) ==
    /\ commands[1].pc = "idle"
    /\ ManagerPolling
    /\ next_id <= MaxRecords
    /\ CloneConflict(new_token) = "none"
    /\ \E last_bot \in LastBotChoices(bots_collection) :
          /\ bots_collection' = bots_collection \cup
                {[id |-> next_id,
                  name |-> CloneName(Cardinality(bots_collection)),
                  token |-> new_token, next_url |-> NoUrl,
                  port |-> get_next_available_port(bots_collection)]}
          /\ commands' = [commands EXCEPT ![1] =
                [NoCommand EXCEPT !.pc = "update_last", !.token = new_token,
                    !.target = IF last_bot = {} THEN NoBot
                               ELSE CHOOSE b \in last_bot : TRUE]]
    /\ next_id' = next_id + 1
    /\ UNCHANGED <<running_instances, instance_lock, running_bots,
                   bot_emoji_assignment, system_running, threads>>
    /\ UNCHANGED <<assign_vars, signal_vars, dialog_vars>>

\* add_bot_to_database from update_one on, then clone_command starts the
\* thread of the new bot, which reaches its polling loop
UpdateLastBot ==
    /\ commands[1].pc = "update_last"
    /\ LET new_bot == CHOOSE b \in bots_collection : b.id = next_id - 1
           last_bot == commands[1].target
           all_bots == IF last_bot = NoBot THEN bots_collection
                       ELSE SetNextUrl(bots_collection, last_bot.id,
                                       SignalUrl(new_bot.port))
           bot_emoji_pack == assign_emoji_pack_to_bot(new_bot.name,
                                 emoji_collection, hash_key)
       IN  /\ bots_collection' = all_bots
           /\ threads' = [threads EXCEPT ![new_bot.id] =
                               StartedThread(new_bot, all_bots)]
           /\ running_instances' = running_instances \cup {new_bot.token}
           /\ bot_emoji_assignment' =
                 MapPut(bot_emoji_assignment, new_bot.name, bot_emoji_pack)
           /\ running_bots' =
                 MapPut(running_bots, new_bot.name,
                        BotInfo(new_bot, bot_emoji_pack))
    /\ commands' = Reply(1, "cloned")
    /\ UNCHANGED <<next_id, instance_lock, system_running>>
    /\ UNCHANGED <<assign_vars, signal_vars, dialog_vars>>

\* a defective leave: the document is deleted before the predecessor is
\* relinked
DeleteBeforeUpdate(target_bot) ==
    /\ commands[1].pc = "idle"
    /\ ManagerPolling
    /\ target_bot \in bots_collection
    /\ ~IsMainToken(target_bot.token)
    /\ running_instances' = running_instances \ {target_bot.token}
    /\ running_bots' = MapDel(running_bots, target_bot.name)
    /\ bots_collection' = {b \in bots_collection : b.id # target_bot.id}
    /\ commands' = [commands EXCEPT ![1] =
                       [NoCommand EXCEPT !.pc = "delete_one",
                                         !.target = target_bot]]
    /\ UNCHANGED <<next_id, instance_lock, bot_emoji_assignment,
                   system_running, threads>>
    /\ UNCHANGED <<assign_vars, signal_vars, dialog_vars>>

\* unclone_command from the running-set discard to update_one: the
\* predecessor found by next_url takes the target's next_url
UpdatePreviousBot(target_bot) ==
    /\ commands[1].pc = "idle"
    /\ ManagerPolling
    /\ target_bot \in bots_collection
    /\ ~IsMainToken(target_bot.token)
    /\ running_instances' = running_instances \ {target_bot.token}
    /\ running_bots' = MapDel(running_bots, target_bot.name)
    /\ LET previous_bot ==
               FindOne({b \in bots_collection :
                           b.next_url = SignalUrl(target_bot.port)})
       IN  bots_collection' =
              IF previous_bot = {} THEN bots_collection
              ELSE SetNextUrl(bots_collection,
                              (CHOOSE b \in previous_bot : TRUE).id,
                              target_bot.next_url)
    /\ commands' = [commands EXCEPT ![1] =
                       [NoCommand EXCEPT !.pc = "delete_one",
                                         !.target = target_bot]]
    /\ UNCHANGED <<next_id, instance_lock, bot_emoji_assignment,
                   system_running, threads>>
    /\ UNCHANGED <<assign_vars, signal_vars, dialog_vars>>

\* unclone_command, delete_one; the thread of the bot then ends
DeleteTargetBot ==
    /\ commands[1].pc = "delete_one"
    /\ LET target_bot == commands[1].target
       IN  /\ bots_collection' =
                 {b \in bots_collection : b.id # target_bot.id}
           /\ threads' = [threads EXCEPT ![target_bot.id].pc = "done"]
    /\ commands' = Reply(1, "uncloned")
    /\ UNCHANGED <<next_id, running_instances, instance_lock, running_bots,
                   bot_emoji_assignment, system_running>>
    /\ UNCHANGED <<assign_vars, signal_vars, dialog_vars>>

\* the process is killed between the two writes of a command: the store
\* keeps what was written
ProcessKilled ==
    /\ commands[1].pc \in {"update_last", "delete_one"}
    /\ commands' = [commands EXCEPT ![1].pc =
                       IF commands[1].pc = "update_last"
                       THEN "killed_in_join" ELSE "killed_in_leave"]
    /\ system_running' = FALSE
    /\ UNCHANGED <<bots_collection, next_id, running_instances, instance_lock,
                   running_bots, bot_emoji_assignment, threads>>
    /\ UNCHANGED <<assign_vars, signal_vars, dialog_vars>>

StoreNext ==
    \/ \E new_token \in ChainTokens : InsertNewBot(new_token)
    \/ UpdateLastBot
    \/ \E target_bot \in bots_collection : UpdatePreviousBot(target_bot)
    \/ DeleteTargetBot
    \/ ProcessKilled

StoreSpec == ChainInit /\ [][StoreNext]_vars

\* the documents of the store that point at the port of b
Predecessors(bots, b) == {p \in bots : p.next_url = SignalUrl(b.port)}

\* C31: a join relinks the tail before it persists the new document: when a
\* document is added to a non-empty store, some document already points at
\* it in the state that first holds it.
C31_RelinkBeforeInsert ==
    [][\A n \in bots_collection' :
          ((\A b \in bots_collection : b.id # n.id) /\ bots_collection # {})
              => Predecessors(bots_collection', n) # {}]_vars

\* the next_urls of the store that name the port of no stored document
DanglingUrls(bots) ==
    {b.next_url : b \in {d \in bots : /\ d.next_url # NoUrl
                                      /\ \A o \in bots :
                                            d.next_url # SignalUrl(o.port)}}

JoinedTogether(a, b) ==
    a # b /\ a.name = CloneName(1) /\ b.name = CloneName(1)

\* C33 (as stated): the port of a join is computed in a step of its own
\* before the insertion, so two joins that are handled at once, both reading
\* the store before either inserts, persist the same port.
C33_OverlappingJoinsSharePort ==
    \A a, b \in bots_collection : JoinedTogether(a, b) => a.port = b.port

\* C33 (amended): no two documents of the store have the same port, also
\* when two /clone commands are handled at once: the port is computed and
\* the document inserted in one synchronous call of the manager's event
\* loop.
C33_PortsUnique ==
    \A a, b \in bots_collection : a.port = b.port => a = b

\* two joins that were handled at once are both stored, on different ports
C33_Witness ==
    \E a, b \in bots_collection : JoinedTogether(a, b) /\ a.port # b.port

\* C34: every selection is isolated from the other threads' selections: the
\* pack a handler draws is the one random.choice yields right after its own
\* seed hash(f"msg_{message_id}"), and the item it draws is the one
\* random.choice yields right after its own seed
\* hash(f"{bot_name}_{message_id}"), whatever the other threads did between
\* its seed and its choice.
C34_SelectionIsIsolated ==
    [][\A t \in ThreadIds :
          LET message_id == handlers[t].event.message_id
          IN  /\ (handlers[t].pc = "pack_choice"
                    /\ handlers'[t].pc = "item_seed")
                 => handlers'[t].message_pack =
                       Choice(SeedState(MsgString(message_id), hash_key),
                              handlers[t].all_packs).value.emojis
              /\ (handlers[t].pc = "item_choice"
                    /\ handlers'[t].pc = "react")
                 => handlers'[t].emoji =
                       Choice(SeedState(BotMsgString(threads[t].name,
                                                     message_id), hash_key),
                              handlers[t].message_pack).value]_vars

\* C35: after joins and leaves that run one at a time and to their end,
\* every non-empty next_url of the store is the signal url of a stored
\* document, and no two documents hold the same non-empty next_url.
C35_PointersValidAndDistinct ==
    /\ DanglingUrls(bots_collection) = {}
    /\ \A a, b \in bots_collection :
          (a.next_url # NoUrl /\ a.next_url = b.next_url) => a = b

\* after a leave the store holds a chain of three documents
C35_Witness ==
    /\ commands[1].reply = "uncloned"
    /\ \E a, b \in bots_collection :
          a # b /\ a.next_url # NoUrl /\ b.next_url # NoUrl

\* C36: while a bot listens on its port, no Flask server of a bot that was
\* removed (its thread has ended) is still bound to that port.
C36_NoStaleListenerOnPort ==
    \A t \in DOMAIN threads :
        threads[t].pc = "polling" =>
            \A o \in Listeners(threads[t].port) : threads[o].pc # "done"

\* C37: the exit cleanup of a worker removes only that worker's membership
\* of the running set: when a later worker of the same token has been
\* started and holds the token in the set, the earlier worker's cleanup
\* leaves the token in the set.
C37_CleanupKeepsLaterWorker ==
    [][\A t, o \in ThreadIds :
          (/\ threads[t].pc = "cleanup"
           /\ threads'[t].pc = "done"
           /\ o # t
           /\ Active(o)
           /\ threads[o].token = threads[t].token
           /\ threads[t].token \in running_instances)
          => threads[t].token \in running_instances']_vars

\* C38: when no lifecycle operation is in progress, the bots recorded in
\* self.running_bots are exactly the bots whose token is in the running
\* set; a bot whose worker ended on its own is in neither.
C38_RunningBotsMatchRunningSet ==
    NoOperationInProgress =>
        /\ \A bot_name \in DOMAIN running_bots :
              running_bots[bot_name].token \in running_instances
        /\ \A token \in running_instances :
              \E bot_name \in DOMAIN running_bots :
                  running_bots[bot_name].token = token

\* C39: a pending custom post is consumed exactly when a custom post is
\* written: a handler that takes no valid list leaves the pending custom
\* posts and db['custom_posts'] as they are; a handler inserts a custom post
\* only while its user's pending custom post is in place, and for the post
\* it names, so that a later list of the same user writes nothing.
C39_PendingConsumedWithWrite ==
    [][\A t \in ThreadIds :
          /\ (handlers[t].pc = "react" /\ handlers'[t].pc = "idle") =>
                /\ pending_custom_posts' = pending_custom_posts
                /\ custom_posts_collection' = custom_posts_collection
          /\ (handlers[t].pc = "custom_insert"
                /\ handlers'[t].pc = "custom_applied") =>
                LET user_id == handlers[t].event.user_id
                    doc == handlers[t].custom_post_doc
                IN  /\ user_id \in DOMAIN pending_custom_posts
                    /\ pending_custom_posts[user_id].chat_id = doc.chat_id
                    /\ pending_custom_posts[user_id].message_id =
                          doc.message_id]_vars

====
